---- MODULE Spec2Model ----
(***************************************************************************)
(* Model of the Go implementation (src/go/main.go) of the Prism account    *)
(* migration script: fetch accounts and VPCs, keep the accounts to         *)
(* migrate, join them with their VPCs, render one Typescript module per    *)
(* account and print it.                                                   *)
(*                                                                         *)
(* Strings that the program inspects rune by rune (account names) are      *)
(* sequences of one-character strings.  Strings it only copies (account    *)
(* numbers, subnet ids, vpc ids) are atomic TLA+ strings.  A formatted     *)
(* text is the sequence of its pieces: the literal segments of the format  *)
(* string and the substituted values, in order.                            *)
(***************************************************************************)
EXTENDS Integers, Sequences, FiniteSets, TLC

VARIABLES pc, accounts, wrapper, vpcs, infos, i, stdout, requests, faults,
          callArgs, callRet

vars == <<pc, accounts, wrapper, vpcs, infos, i, stdout, requests, faults,
          callArgs, callRet>>

(***************************************************************************)
(* Bounds of the model.                                                    *)
(***************************************************************************)
MaxAccounts == 2
MaxVPCs == 2
MaxInfoVPCs == 2
MaxLen == 3

SeqsUpTo(S, n) == UNION {[1..k -> S] : k \in 0..n}

(***************************************************************************)
(* Runes.                                                                  *)
(***************************************************************************)
Lower == <<"a","b","c","d","e","f","g","h","i","j","k","l","m",
           "n","o","p","q","r","s","t","u","v","w","x","y","z">>
Upper == <<"A","B","C","D","E","F","G","H","I","J","K","L","M",
           "N","O","P","Q","R","S","T","U","V","W","X","Y","Z">>
Digits == {"0","1","2","3","4","5","6","7","8","9"}

LowerSet == {Lower[k] : k \in 1..26}
UpperSet == {Upper[k] : k \in 1..26}

\* unicode.ToTitle on the ASCII runes of the model
ToTitle(r) ==
    IF r \in LowerSet THEN Upper[CHOOSE k \in 1..26 : Lower[k] = r] ELSE r

\* strings.isSeparator: ASCII alphanumerics and underscore are not separators
isSeparator(r) == ~(r \in Digits \/ r \in LowerSet \/ r \in UpperSet \/ r = "_")

\* A mutant of Title: only the first rune of the string is upper-cased.
Title_firstRuneOnly(s) ==
    [k \in 1..Len(s) |-> IF k = 1 THEN ToTitle(s[k]) ELSE s[k]]

\* strings.Title: prev starts as ' '; a rune whose predecessor is a separator
\* is mapped to title case, every other rune is kept.
Title(s) ==
    [k \in 1..Len(s) |->
        IF isSeparator(IF k = 1 THEN " " ELSE s[k-1]) THEN ToTitle(s[k]) ELSE s[k]]

\* strings.Split(s, "-"): the pieces between hyphens, empty pieces included
RECURSIVE Split(_)
Split(s) ==
    IF \A k \in 1..Len(s) : s[k] # "-"
    THEN <<s>>
    ELSE LET h == CHOOSE k \in 1..Len(s) :
                     s[k] = "-" /\ \A j \in 1..(k-1) : s[j] # "-"
         IN  <<SubSeq(s, 1, h-1)>> \o Split(SubSeq(s, h+1, Len(s)))

RECURSIVE TitleEach(_)
TitleEach(parts) ==
    IF parts = <<>> THEN <<>> ELSE Title(Head(parts)) \o TitleEach(Tail(parts))

\* A mutant of camelCase: the first part is kept as it is.
camelCase_firstPartKept(s) ==
    LET parts == Split(s) IN Head(parts) \o TitleEach(Tail(parts))

\* camelCase: out += strings.Title(part) for every part of the split
camelCase(s) == TitleEach(Split(s))

(***************************************************************************)
(* Subnets and VPCs.                                                       *)
(***************************************************************************)
PrismSubnet(id, public) == [subnetId |-> id, isPublic |-> public]

\* PrismVPC{}: the zero value returned with ok = false
ZeroVPC == [vpcId |-> "", accountId |-> "", isDefault |-> FALSE, subnets |-> <<>>]

\* the number of public and of private subnets a primary VPC has
RequiredPublic == 3
RequiredPrivate == 3

\* A mutant of publicSubnets: the result is built in reverse order.
RECURSIVE publicSubnets_reversed(_)
publicSubnets_reversed(subnets) ==
    IF subnets = <<>> THEN <<>>
    ELSE IF Head(subnets).isPublic
         THEN publicSubnets_reversed(Tail(subnets)) \o <<Head(subnets)>>
         ELSE publicSubnets_reversed(Tail(subnets))

RECURSIVE publicSubnets(_)
publicSubnets(subnets) ==
    IF subnets = <<>> THEN <<>>
    ELSE IF Head(subnets).isPublic
         THEN <<Head(subnets)>> \o publicSubnets(Tail(subnets))
         ELSE publicSubnets(Tail(subnets))

RECURSIVE privateSubnets(_)
privateSubnets(subnets) ==
    IF subnets = <<>> THEN <<>>
    ELSE IF ~Head(subnets).isPublic
         THEN <<Head(subnets)>> \o privateSubnets(Tail(subnets))
         ELSE privateSubnets(Tail(subnets))

\* A mutant of the search predicate: the default flag is not looked at.
isPrimary_defaultIgnored(vpc) ==
    /\ Len(publicSubnets(vpc.subnets)) = RequiredPublic
    /\ Len(privateSubnets(vpc.subnets)) = RequiredPrivate

\* the function literal passed to slices.IndexFunc
isPrimary(vpc) ==
    /\ ~vpc.isDefault
    /\ Len(publicSubnets(vpc.subnets)) = RequiredPublic
    /\ Len(privateSubnets(vpc.subnets)) = RequiredPrivate

\* A mutant of IndexFunc: the search runs from the end of the slice.
RECURSIVE IndexFunc_last(_, _)
IndexFunc_last(VPCs, k) ==
    IF k > Len(VPCs) THEN -1
    ELSE LET later == IndexFunc_last(VPCs, k + 1)
         IN  IF later # -1 THEN later
             ELSE IF isPrimary(VPCs[k]) THEN k ELSE -1

\* slices.IndexFunc, 1-based; -1 when no element satisfies the predicate
RECURSIVE IndexFunc(_, _)
IndexFunc(VPCs, k) ==
    IF k > Len(VPCs) THEN -1
    ELSE IF isPrimary(VPCs[k]) THEN k ELSE IndexFunc(VPCs, k + 1)

findPrimaryVPC(VPCs) ==
    LET idx == IndexFunc(VPCs, 1)
    IN  IF idx = -1 THEN [vpc |-> ZeroVPC, ok |-> FALSE]
        ELSE [vpc |-> VPCs[idx], ok |-> TRUE]

(***************************************************************************)
(* Rendering.                                                              *)
(***************************************************************************)
RECURSIVE Join(_, _)
Join(elems, sep) ==
    IF elems = <<>> THEN <<>>
    ELSE IF Len(elems) = 1 THEN Head(elems)
    ELSE Head(elems) \o <<sep>> \o Join(Tail(elems), sep)

\* "[" + strings.Join(ids, ", ") + "]" with ids[k] = Sprintf("'%s'", id)
subnetsAsTypescriptArray(subnets) ==
    LET ids == [k \in 1..Len(subnets) |-> <<"'", subnets[k].subnetId, "'">>]
    IN  <<"[">> \o Join(ids, ", ") \o <<"]">>

NoVPCComment == "// No suitable VPC found."
VPCOpen == "vpc: {\n    primary: {\n        privateSubnets: "
VPCMiddle == "\n        publicSubnets: "
VPCClose == "\n    }\n}"

TplHead == "import type { AwsAccountSetupProps } from '../types';\n\nexport const "
TplNumber == "Account: AwsAccountSetupProps = {\n    accountNumber: '"
TplName == "',\n    accountName: '"
TplStack == "',\n    stack: '"
TplRest == "',\n    bucketForArtifacts: 'TODO',\n    bucketForPrivateConfig: 'TODO',\n    logging: {\n    streamName: 'TODO',\n    "
TplTail == "\n}\n"

\* A mutant of the vpc part: the block is rendered whatever the search says.
vpcPart_always(VPCs) ==
    LET found == findPrimaryVPC(VPCs)
    IN  <<VPCOpen>> \o subnetsAsTypescriptArray(privateSubnets(found.vpc.subnets))
        \o <<VPCMiddle>> \o subnetsAsTypescriptArray(publicSubnets(found.vpc.subnets))
        \o <<VPCClose>>

\* the value of the local variable vpc of asTypescriptTemplate
vpcPart(VPCs) ==
    LET found == findPrimaryVPC(VPCs)
    IN  IF found.ok
        THEN <<VPCOpen>> \o subnetsAsTypescriptArray(privateSubnets(found.vpc.subnets))
             \o <<VPCMiddle>> \o subnetsAsTypescriptArray(publicSubnets(found.vpc.subnets))
             \o <<VPCClose>>
        ELSE <<NoVPCComment>>

asTypescriptTemplate(info) ==
    <<TplHead>> \o camelCase(info.AccountName)
    \o <<TplNumber, info.AccountNumber, TplName>> \o info.AccountName
    \o <<TplStack>> \o camelCase(info.AccountName)
    \o <<TplRest>> \o vpcPart(info.VPCs) \o <<TplTail>>

\* fmt.Println: the operand followed by a newline
Println(text) == text \o <<"\n">>

(***************************************************************************)
(* The orchestrator.                                                       *)
(***************************************************************************)
AccountsURL == "https://prism.gutools.co.uk/sources/accounts"
VPCsURL == "https://prism.gutools.co.uk/vpcs"

DeployToolsName == <<"d","e","p","l","o","y","-","t","o","o","l","s">>
OtherTeamName == <<"o","t","h","e","r","-","t","e","a","m">>
DeployToolsUpperName == <<"D","e","p","l","o","y","-","t","o","o","l","s">>

accountsToMigrate == <<DeployToolsName>>

Contains(list, v) == \E k \in 1..Len(list) : list[k] = v

EmptyMap == [k \in {} |-> <<>>]

\* A mutant of groupBy: a later item is put in front of its group.
RECURSIVE groupBy_prepend(_, _)
groupBy_prepend(items, m) ==
    IF items = <<>> THEN m
    ELSE LET item == Head(items)
             key == item.accountId
         IN  IF key \notin DOMAIN m
             THEN groupBy_prepend(Tail(items), (key :> <<item>>) @@ m)
             ELSE groupBy_prepend(Tail(items), [m EXCEPT ![key] = <<item>> \o @])

\* groupBy with f = the accountId of the item; m is the map built so far
RECURSIVE groupBy(_, _)
groupBy(items, m) ==
    IF items = <<>> THEN m
    ELSE LET item == Head(items)
             key == item.accountId
         IN  IF key \notin DOMAIN m
             THEN groupBy(Tail(items), (key :> <<item>>) @@ m)
             ELSE groupBy(Tail(items), [m EXCEPT ![key] = Append(@, item)])

\* A mutant of check: the error is not looked at.
check_ignored(err, next) == next

\* check: log.Fatalf ends the process when err is not nil
check(err, next) == IF err THEN "fatal" ELSE next

\* the inputs the inventory service may answer with
AccountNumbers == {"123", "456"}
AccountNames == {DeployToolsName, OtherTeamName, DeployToolsUpperName}
PrismAccounts == [AccountNumber : AccountNumbers, AccountName : AccountNames]
AccountLists == SeqsUpTo(PrismAccounts, MaxAccounts)

ThreeThree ==
    << PrismSubnet("a", TRUE), PrismSubnet("b", TRUE), PrismSubnet("c", TRUE),
       PrismSubnet("x", FALSE), PrismSubnet("y", FALSE), PrismSubnet("z", FALSE) >>
Interleaved ==
    << PrismSubnet("x", FALSE), PrismSubnet("a", TRUE), PrismSubnet("y", FALSE),
       PrismSubnet("b", TRUE), PrismSubnet("z", FALSE), PrismSubnet("c", TRUE) >>
ThreeTwo ==
    << PrismSubnet("a", TRUE), PrismSubnet("b", TRUE), PrismSubnet("c", TRUE),
       PrismSubnet("x", FALSE), PrismSubnet("y", FALSE) >>
FourThree ==
    << PrismSubnet("a", TRUE), PrismSubnet("x", FALSE), PrismSubnet("b", TRUE),
       PrismSubnet("y", FALSE), PrismSubnet("c", TRUE), PrismSubnet("z", FALSE),
       PrismSubnet("d", TRUE) >>
SameIds ==
    << PrismSubnet("a", TRUE), PrismSubnet("a", FALSE), PrismSubnet("a", TRUE),
       PrismSubnet("b", FALSE), PrismSubnet("a", TRUE), PrismSubnet("a", FALSE) >>

\* the vpc ids of a fetched list are distinct: the id is given by the position
VPCIds == <<"vpc-1", "vpc-2", "vpc-3", "vpc-4">>
VPCLists(n, numbers, layouts) ==
    { [k \in 1..Len(l) |->
          [vpcId |-> VPCIds[k], accountId |-> l[k].accountId,
           isDefault |-> l[k].isDefault, subnets |-> l[k].subnets]] :
      l \in SeqsUpTo([accountId : numbers, isDefault : BOOLEAN, subnets : layouts], n) }

NoRet == [fn |-> "", vpc |-> ZeroVPC, ok |-> FALSE, out |-> <<>>]

Init ==
    /\ pc = "getAccounts"
    /\ accounts = <<>>
    /\ wrapper = <<>>
    /\ vpcs = EmptyMap
    /\ infos = <<>>
    /\ i = 1
    /\ stdout = <<>>
    /\ requests = <<>>
    /\ faults = {}
    /\ callArgs = <<>>
    /\ callRet = NoRet

\* getAccounts: http.Get and its check
GetAccounts ==
    /\ pc = "getAccounts"
    /\ \E err \in BOOLEAN :
          /\ pc' = check(err, "readAccounts")
          /\ faults' = IF err THEN faults \cup {"unable to get prism accounts"} ELSE faults
    /\ requests' = Append(requests, AccountsURL)
    /\ UNCHANGED <<accounts, wrapper, vpcs, infos, i, stdout, callArgs, callRet>>

\* getAccounts: io.ReadAll and its check
ReadAccounts ==
    /\ pc = "readAccounts"
    /\ \E err \in BOOLEAN :
          /\ pc' = check(err, "unmarshalAccounts")
          /\ faults' = IF err THEN faults \cup {"unable to read prism accounts response body"}
                       ELSE faults
    /\ UNCHANGED <<accounts, wrapper, vpcs, infos, i, stdout, requests, callArgs, callRet>>

\* getAccounts: json.Unmarshal, its check and the return of wrapper.Data
UnmarshalAccounts ==
    /\ pc = "unmarshalAccounts"
    /\ \E err \in BOOLEAN, data \in AccountLists :
          /\ pc' = check(err, "getVPCs")
          /\ faults' = IF err THEN faults \cup {"unable to unmarshal accounts response"}
                       ELSE faults
          /\ accounts' = IF err THEN <<>> ELSE data
    /\ UNCHANGED <<wrapper, vpcs, infos, i, stdout, requests, callArgs, callRet>>

\* getVPCs: http.Get and its check
GetVPCs ==
    /\ pc = "getVPCs"
    /\ \E err \in BOOLEAN :
          /\ pc' = check(err, "readVPCs")
          /\ faults' = IF err THEN faults \cup {"unable to get prism vpcs"} ELSE faults
    /\ requests' = Append(requests, VPCsURL)
    /\ UNCHANGED <<accounts, wrapper, vpcs, infos, i, stdout, callArgs, callRet>>

\* getVPCs: io.ReadAll and its check
ReadVPCs ==
    /\ pc = "readVPCs"
    /\ \E err \in BOOLEAN :
          /\ pc' = check(err, "unmarshalVPCs")
          /\ faults' = IF err THEN faults \cup {"unable to read prism vpcs response body"}
                       ELSE faults
    /\ UNCHANGED <<accounts, wrapper, vpcs, infos, i, stdout, requests, callArgs, callRet>>

\* getVPCs: json.Unmarshal, its check and the grouping by account id
UnmarshalVPCs ==
    /\ pc = "unmarshalVPCs"
    /\ \E err \in BOOLEAN, data \in VPCLists(MaxVPCs, AccountNumbers, {ThreeThree}) :
          /\ pc' = check(err, "build")
          /\ faults' = IF err THEN faults \cup {"unable to unmarshal vpcs response"}
                       ELSE faults
          /\ wrapper' = IF err THEN <<>> ELSE data
          /\ vpcs' = groupBy(wrapper', EmptyMap)
    /\ i' = 1
    /\ UNCHANGED <<accounts, infos, stdout, requests, callArgs, callRet>>

\* A mutant of the loop body: every account is kept.
BuildInfo_unfiltered ==
    /\ pc = "build"
    /\ i <= Len(accounts)
    /\ LET account == accounts[i]
           found == IF account.AccountNumber \in DOMAIN vpcs
                    THEN vpcs[account.AccountNumber] ELSE <<>>
       IN  infos' = Append(infos,
                       [AccountNumber |-> account.AccountNumber,
                        AccountName |-> account.AccountName,
                        Stack |-> "TODO",
                        BucketForArtifact |-> "TODO",
                        BucketForPrivateConfig |-> "TODO",
                        Logging |-> [StreamName |-> "TODO"],
                        VPCs |-> found])
    /\ i' = i + 1
    /\ UNCHANGED <<pc, accounts, wrapper, vpcs, stdout, requests, faults, callArgs, callRet>>

\* main: one iteration of the loop over accounts
BuildInfo ==
    /\ pc = "build"
    /\ i <= Len(accounts)
    /\ LET account == accounts[i]
           found == IF account.AccountNumber \in DOMAIN vpcs
                    THEN vpcs[account.AccountNumber] ELSE <<>>
       IN  IF ~Contains(accountsToMigrate, account.AccountName)
           THEN infos' = infos
           ELSE infos' = Append(infos,
                            [AccountNumber |-> account.AccountNumber,
                             AccountName |-> account.AccountName,
                             Stack |-> "TODO",
                             BucketForArtifact |-> "TODO",
                             BucketForPrivateConfig |-> "TODO",
                             Logging |-> [StreamName |-> "TODO"],
                             VPCs |-> found])
    /\ i' = i + 1
    /\ UNCHANGED <<pc, accounts, wrapper, vpcs, stdout, requests, faults, callArgs, callRet>>

\* main: the loop over accounts ends
BuildDone ==
    /\ pc = "build"
    /\ i > Len(accounts)
    /\ pc' = "print"
    /\ i' = 1
    /\ UNCHANGED <<accounts, wrapper, vpcs, infos, stdout, requests, faults, callArgs, callRet>>

\* main: one iteration of the loop over infos
PrintInfo ==
    /\ pc = "print"
    /\ i <= Len(infos)
    /\ stdout' = Append(stdout, Println(asTypescriptTemplate(infos[i])))
    /\ i' = i + 1
    /\ UNCHANGED <<pc, accounts, wrapper, vpcs, infos, requests, faults, callArgs, callRet>>

\* main returns
PrintDone ==
    /\ pc = "print"
    /\ i > Len(infos)
    /\ pc' = "done"
    /\ UNCHANGED <<accounts, wrapper, vpcs, infos, i, stdout, requests, faults, callArgs, callRet>>

Next ==
    \/ GetAccounts
    \/ ReadAccounts
    \/ UnmarshalAccounts
    \/ GetVPCs
    \/ ReadVPCs
    \/ UnmarshalVPCs
    \/ BuildInfo
    \/ BuildDone
    \/ PrintInfo
    \/ PrintDone

Spec == Init /\ [][Next]_vars

(***************************************************************************)
(* findPrimaryVPC and asTypescriptTemplate called on their own, on every   *)
(* AccountInfo of a bounded set.                                           *)
(***************************************************************************)
Layouts == {<<>>, ThreeThree, Interleaved, ThreeTwo, FourThree, SameIds}

InfoInputs ==
    { [AccountNumber |-> "123", AccountName |-> DeployToolsName, Stack |-> "TODO",
       BucketForArtifact |-> "TODO", BucketForPrivateConfig |-> "TODO",
       Logging |-> [StreamName |-> "TODO"], VPCs |-> l] :
      l \in VPCLists(MaxInfoVPCs, {"123"}, Layouts) }

InitVPC ==
    /\ pc = "call"
    /\ callArgs \in {<<info>> : info \in InfoInputs}
    /\ callRet = NoRet
    /\ accounts = <<>>
    /\ wrapper = <<>>
    /\ vpcs = EmptyMap
    /\ infos = <<>>
    /\ i = 1
    /\ stdout = <<>>
    /\ requests = <<>>
    /\ faults = {}

CallFindPrimaryVPC ==
    /\ pc = "call"
    /\ LET r == findPrimaryVPC(callArgs[1].VPCs)
       IN  callRet' = [fn |-> "findPrimaryVPC", vpc |-> r.vpc, ok |-> r.ok, out |-> <<>>]
    /\ pc' = "returned"
    /\ UNCHANGED <<accounts, wrapper, vpcs, infos, i, stdout, requests, faults, callArgs>>

CallAsTypescriptTemplate ==
    /\ pc = "call"
    /\ callRet' = [fn |-> "asTypescriptTemplate", vpc |-> ZeroVPC, ok |-> FALSE,
                   out |-> asTypescriptTemplate(callArgs[1])]
    /\ pc' = "returned"
    /\ UNCHANGED <<accounts, wrapper, vpcs, infos, i, stdout, requests, faults, callArgs>>

NextVPC == CallFindPrimaryVPC \/ CallAsTypescriptTemplate

SpecVPC == InitVPC /\ [][NextVPC]_vars

(***************************************************************************)
(* camelCase called on its own, once on every string of a bounded set and  *)
(* a second time on its own result.                                        *)
(***************************************************************************)
Alphabet == {"a", "b", "A", "1", "_", " ", "-"}

CamelInputs == SeqsUpTo(Alphabet, MaxLen) \cup {DeployToolsName, OtherTeamName}

InitCamel ==
    /\ pc = "call"
    /\ callArgs \in {<<s>> : s \in CamelInputs}
    /\ callRet = NoRet
    /\ accounts = <<>>
    /\ wrapper = <<>>
    /\ vpcs = EmptyMap
    /\ infos = <<>>
    /\ i = 1
    /\ stdout = <<>>
    /\ requests = <<>>
    /\ faults = {}

CallCamelCase ==
    /\ pc = "call"
    /\ callRet' = [fn |-> "camelCase", vpc |-> ZeroVPC, ok |-> FALSE,
                   out |-> camelCase(callArgs[1])]
    /\ pc' = "returned"
    /\ UNCHANGED <<accounts, wrapper, vpcs, infos, i, stdout, requests, faults, callArgs>>

CallCamelCaseAgain ==
    /\ pc = "returned"
    /\ callArgs' = Append(callArgs, callRet.out)
    /\ callRet' = [fn |-> "camelCase", vpc |-> ZeroVPC, ok |-> FALSE,
                   out |-> camelCase(callRet.out)]
    /\ pc' = "returnedTwice"
    /\ UNCHANGED <<accounts, wrapper, vpcs, infos, i, stdout, requests, faults>>

NextCamel == CallCamelCase \/ CallCamelCaseAgain

SpecCamel == InitCamel /\ [][NextCamel]_vars

(***************************************************************************)
(* Reading a rendered text back.                                           *)
(***************************************************************************)
Occurs(text, piece) == \E k \in 1..Len(text) : text[k] = piece

IndexOf(text, piece) == CHOOSE k \in 1..Len(text) : text[k] = piece

\* the pieces of text strictly between the literal pieces from and to
\* (nothing when one of the two does not occur)
Between(text, from, to) ==
    IF Occurs(text, from) /\ Occurs(text, to)
    THEN SubSeq(text, IndexOf(text, from) + 1, IndexOf(text, to) - 1)
    ELSE <<>>

\* the pieces of the array literal ['id1', 'id2', ...] of a non-empty id list
ArrayLiteral(ids) ==
    [j \in 1..(4 * Len(ids) + 1) |->
        IF j = 1 THEN "["
        ELSE IF j = 4 * Len(ids) + 1 THEN "]"
        ELSE IF j % 4 = 3 THEN ids[(j + 1) \div 4]
        ELSE IF j % 4 = 1 THEN ", "
        ELSE "'"]

\* the positions of the VPCs that are not default and have exactly three
\* public and exactly three private subnets
Qualifying(VPCs) ==
    { k \in 1..Len(VPCs) :
        /\ VPCs[k].isDefault = FALSE
        /\ Cardinality({j \in 1..Len(VPCs[k].subnets) : VPCs[k].subnets[j].isPublic}) = 3
        /\ Cardinality({j \in 1..Len(VPCs[k].subnets) : ~VPCs[k].subnets[j].isPublic}) = 3 }

First(S) == CHOOSE k \in S : \A j \in S : k <= j

IdsWhere(subnets, public) ==
    LET kept == SelectSeq(subnets, LAMBDA s : s.isPublic = public)
    IN  [k \in 1..Len(kept) |-> kept[k].subnetId]

Returned(fn) == pc = "returned" /\ callRet.fn = fn

(***************************************************************************)
(* C1: whenever findPrimaryVPC reports a VPC as found, that VPC is an      *)
(* element of the input sequence, is not a default VPC and has exactly 3   *)
(* public and exactly 3 private subnets.                                   *)
(***************************************************************************)
C1_FoundIsNonDefaultThreeThree ==
    (Returned("findPrimaryVPC") /\ callRet.ok) =>
        LET VPCs == callArgs[1].VPCs
            v == callRet.vpc
        IN  /\ \E k \in 1..Len(VPCs) : VPCs[k] = v
            /\ v.isDefault = FALSE
            /\ Cardinality({j \in 1..Len(v.subnets) : v.subnets[j].isPublic}) = 3
            /\ Cardinality({j \in 1..Len(v.subnets) : ~v.subnets[j].isPublic}) = 3

\* a default VPC with three and three subnets is passed over for the next one
C1_Witness ==
    /\ Returned("findPrimaryVPC")
    /\ callRet.ok
    /\ Len(callArgs[1].VPCs) = 2
    /\ callArgs[1].VPCs[1].isDefault
    /\ callArgs[1].VPCs[1].subnets = ThreeThree
    /\ callRet.vpc = callArgs[1].VPCs[2]

(***************************************************************************)
(* C2: findPrimaryVPC returns the qualifying VPC with the lowest index     *)
(* when at least one qualifies, and returns ok = false, without failing,   *)
(* exactly when no VPC of the sequence qualifies.                          *)
(***************************************************************************)
C2_FirstQualifyingOrNone ==
    /\ pc = "call" => ENABLED CallFindPrimaryVPC
    /\ Returned("findPrimaryVPC") =>
          LET VPCs == callArgs[1].VPCs
              Q == Qualifying(VPCs)
          IN  /\ callRet.ok <=> Q # {}
              /\ Q # {} => callRet.vpc = VPCs[First(Q)]
              /\ Q = {} => callRet.vpc = ZeroVPC

\* two VPCs qualify and the first of them is returned
C2_Witness ==
    /\ Returned("findPrimaryVPC")
    /\ Qualifying(callArgs[1].VPCs) = {1, 2}
    /\ callRet.ok
    /\ callRet.vpc.vpcId = "vpc-1"

(***************************************************************************)
(* C6: asTypescriptTemplate is total; its output has the vpc.primary block *)
(* exactly when a primary VPC exists among info.VPCs, and otherwise has    *)
(* the one-line comment and no block; with no VPC at all, or with a single *)
(* default VPC, it has the comment.                                        *)
(***************************************************************************)
C6_BlockIffPrimaryFound ==
    /\ pc = "call" => ENABLED CallAsTypescriptTemplate
    /\ Returned("asTypescriptTemplate") =>
          LET VPCs == callArgs[1].VPCs
              out == callRet.out
          IN  /\ Occurs(out, VPCOpen) <=> Qualifying(VPCs) # {}
              /\ Occurs(out, NoVPCComment) <=> ~Occurs(out, VPCOpen)
              /\ VPCs = <<>> => Occurs(out, NoVPCComment)
              /\ (Len(VPCs) = 1 /\ VPCs[1].isDefault) => Occurs(out, NoVPCComment)

\* the only VPC has three and three subnets but is the default one
C6_Witness ==
    /\ Returned("asTypescriptTemplate")
    /\ Len(callArgs[1].VPCs) = 1
    /\ callArgs[1].VPCs[1].isDefault
    /\ callArgs[1].VPCs[1].subnets = ThreeThree
    /\ Occurs(callRet.out, NoVPCComment)
    /\ ~Occurs(callRet.out, VPCOpen)

(***************************************************************************)
(* C10: when a primary VPC is found, the block lists in privateSubnets the *)
(* ids of its private subnets and in publicSubnets the ids of its public   *)
(* subnets, each in input order and each with 3 entries, every subnet in   *)
(* exactly one list; public [a,b,c] and private [x,y,z] render as          *)
(* privateSubnets: ['x', 'y', 'z'] and publicSubnets: ['a', 'b', 'c'].     *)
(***************************************************************************)
C10_SubnetListsPartitionInOrder ==
    (Returned("asTypescriptTemplate") /\ Occurs(callRet.out, VPCOpen)) =>
        LET VPCs == callArgs[1].VPCs
            out == callRet.out
            primary == VPCs[First(Qualifying(VPCs))]
            private == IdsWhere(primary.subnets, FALSE)
            public == IdsWhere(primary.subnets, TRUE)
        IN  /\ Qualifying(VPCs) # {}
            /\ Len(private) = 3
            /\ Len(public) = 3
            /\ Len(private) + Len(public) = Len(primary.subnets)
            /\ Between(out, VPCOpen, VPCMiddle) = ArrayLiteral(private)
            /\ Between(out, VPCMiddle, VPCClose) = ArrayLiteral(public)
            /\ primary.subnets = ThreeThree =>
                  /\ Between(out, VPCOpen, VPCMiddle) =
                        <<"[", "'", "x", "'", ", ", "'", "y", "'", ", ", "'", "z", "'", "]">>
                  /\ Between(out, VPCMiddle, VPCClose) =
                        <<"[", "'", "a", "'", ", ", "'", "b", "'", ", ", "'", "c", "'", "]">>

\* the primary VPC has its public and private subnets interleaved
C10_Witness ==
    /\ Returned("asTypescriptTemplate")
    /\ Len(callArgs[1].VPCs) = 1
    /\ callArgs[1].VPCs[1].subnets = Interleaved
    /\ ~callArgs[1].VPCs[1].isDefault
    /\ Occurs(callRet.out, VPCOpen)
    /\ Between(callRet.out, VPCOpen, VPCMiddle) =
          <<"[", "'", "x", "'", ", ", "'", "y", "'", ", ", "'", "z", "'", "]">>

(***************************************************************************)
(* C8: camelCase is idempotent on strings with no hyphens, and             *)
(* camelCase("deploy-tools") = "DeployTools".                              *)
(***************************************************************************)
C8_IdempotentAndDeployTools ==
    /\ (pc = "returnedTwice" /\ ~Occurs(callArgs[1], "-")) => callRet.out = callArgs[2]
    /\ (Returned("camelCase") /\ callArgs[1] = DeployToolsName) =>
          callRet.out = <<"D","e","p","l","o","y","T","o","o","l","s">>

\* a camel-cased string that the first call changes and the second does not
C8_Witness ==
    /\ pc = "returnedTwice"
    /\ callArgs[1] = <<"a", "A", "b">>
    /\ callArgs[2] = <<"A", "A", "b">>
    /\ callRet.out = <<"A", "A", "b">>

(***************************************************************************)
(* C9 as stated: camelCase splits the name on '-', upper-cases the first   *)
(* character of every segment after the first, leaves the first segment    *)
(* unchanged and concatenates, so that 'deploy-tools' gives 'deployTools'. *)
(***************************************************************************)
C9_FirstSegmentUnchanged ==
    Returned("camelCase") =>
        LET s == callArgs[1]
            out == callRet.out
            kept == {k \in 1..Len(s) : s[k] # "-"}
            Rank(k) == Cardinality({j \in kept : j <= k})
        IN  /\ Len(out) = Cardinality(kept)
            /\ \A k \in kept :
                  out[Rank(k)] = IF k > 1 /\ s[k-1] = "-" THEN ToTitle(s[k]) ELSE s[k]
            /\ s = DeployToolsName =>
                  out = <<"d","e","p","l","o","y","T","o","o","l","s">>

(***************************************************************************)
(* C9 as amended: camelCase splits the name on '-', upper-cases the first  *)
(* character of every segment, the first segment included, and of every    *)
(* further word of a segment (a character that follows one which is not an *)
(* ASCII letter, digit or underscore), keeps every other character and     *)
(* concatenates, so that 'deploy-tools' gives 'DeployTools'.               *)
(***************************************************************************)
C9_EverySegmentTitled ==
    Returned("camelCase") =>
        LET s == callArgs[1]
            out == callRet.out
            kept == {k \in 1..Len(s) : s[k] # "-"}
            Rank(k) == Cardinality({j \in kept : j <= k})
            WordRunes == LowerSet \cup UpperSet \cup Digits \cup {"_"}
        IN  /\ Len(out) = Cardinality(kept)
            /\ \A k \in kept :
                  out[Rank(k)] = IF k = 1 \/ s[k-1] \notin WordRunes
                                 THEN ToTitle(s[k]) ELSE s[k]
            /\ s = DeployToolsName =>
                  out = <<"D","e","p","l","o","y","T","o","o","l","s">>

\* the account name of the allow-list has been transformed
C9_Witness ==
    /\ Returned("camelCase")
    /\ callArgs[1] = DeployToolsName
    /\ callRet.out = <<"D","e","p","l","o","y","T","o","o","l","s">>

(***************************************************************************)
(* C3: the run prints exactly one document for each fetched account whose  *)
(* name is, case-sensitively, in the allow-list and none for any other     *)
(* account, in the order of the fetched account list, whatever the VPC     *)
(* list and its order.                                                     *)
(***************************************************************************)
IsDocument(text) ==
    /\ Len(text) > 2
    /\ text[1] = TplHead
    /\ text[Len(text) - 1] = TplTail
    /\ text[Len(text)] = "\n"

C3_OneDocumentPerAllowedAccount ==
    LET kept == SelectSeq(accounts, LAMBDA a : a.AccountName \in {DeployToolsName})
    IN  /\ Len(stdout) <= Len(kept)
        /\ \A k \in 1..Len(stdout) :
              /\ IsDocument(stdout[k])
              /\ Between(stdout[k], TplNumber, TplName) = <<kept[k].AccountNumber>>
        /\ pc = "done" => Len(stdout) = Len(kept)

\* the first account differs from the allow-list entry by case only
C3_Witness ==
    /\ pc = "done"
    /\ Len(accounts) = 2
    /\ accounts[1] = [AccountNumber |-> "456", AccountName |-> DeployToolsUpperName]
    /\ accounts[2] = [AccountNumber |-> "123", AccountName |-> DeployToolsName]
    /\ Len(wrapper) = 2
    /\ Len(stdout) = 1

(***************************************************************************)
(* C4: the AccountInfo of a retained account has as its VPCs exactly the   *)
(* VPCs of the fetched list whose accountId is the account's number, in    *)
(* the order of the fetched list; with no such VPC it has the empty        *)
(* sequence and the run goes on.                                           *)
(***************************************************************************)
C4_InfoVPCsAreTheAccountsVPCs ==
    LET kept == SelectSeq(accounts, LAMBDA a : a.AccountName \in {DeployToolsName})
    IN  /\ Len(infos) <= Len(kept)
        /\ \A k \in 1..Len(infos) :
              /\ infos[k].AccountNumber = kept[k].AccountNumber
              /\ infos[k].VPCs =
                    SelectSeq(wrapper, LAMBDA v : v.accountId = infos[k].AccountNumber)
        /\ pc \in {"print", "done"} => Len(infos) = Len(kept)
        /\ (pc = "build" /\ i <= Len(accounts)) => ENABLED BuildInfo

\* both fetched VPCs belong to the retained account
C4_Witness ==
    /\ pc = "done"
    /\ Len(infos) = 2
    /\ Len(wrapper) = 2
    /\ infos[1].VPCs = wrapper
    /\ infos[2].VPCs = <<>>
    /\ wrapper[1].isDefault /\ ~wrapper[2].isDefault

(***************************************************************************)
(* C5: if a step of either fetch fails, the process ends fatally without   *)
(* having printed any document; a document is printed only after both      *)
(* fetches succeeded, and a failed accounts fetch ends the run before the  *)
(* VPC request is issued.                                                  *)
(***************************************************************************)
AccountsFaults ==
    { "unable to get prism accounts", "unable to read prism accounts response body",
      "unable to unmarshal accounts response" }

C5_FetchFailureIsFatalBeforeOutput ==
    /\ faults # {} => (pc = "fatal" /\ stdout = <<>>)
    /\ pc = "fatal" => (faults # {} /\ ~ENABLED Next)
    /\ stdout # <<>> => (faults = {} /\ requests = <<AccountsURL, VPCsURL>>)
    /\ faults \cap AccountsFaults # {} => ~Occurs(requests, VPCsURL)

\* the VPC response cannot be parsed although an account waits to be printed
C5_Witness ==
    /\ pc = "fatal"
    /\ faults = {"unable to unmarshal vpcs response"}
    /\ Len(accounts) > 0
    /\ accounts[1].AccountName = DeployToolsName
    /\ stdout = <<>>

(***************************************************************************)
(* C7: the document has the camel-cased identifier twice, as the name of   *)
(* the exported constant and as the value of accountName, the raw account  *)
(* number as accountNumber and the raw stack value of the AccountInfo as   *)
(* stack.                                                                  *)
(***************************************************************************)
C7_CamelNameTwiceRawNumberRawStack ==
    \A k \in 1..Len(stdout) :
        LET doc == stdout[k]
            info == infos[k]
        IN  /\ Between(doc, TplHead, TplNumber) = camelCase(info.AccountName)
            /\ Between(doc, TplNumber, TplName) = <<info.AccountNumber>>
            /\ Between(doc, TplName, TplStack) = camelCase(info.AccountName)
            /\ Between(doc, TplStack, TplRest) = <<info.Stack>>

====
